---- MODULE Spec2Model ----
(***************************************************************************)
(* Model of the video overlay bot: the two revisions of the update         *)
(* handler handle_video (app.py with active_users, bot.py with user_tasks) *)
(* and VideoProcessor (video_processor.py).                                *)
(*                                                                         *)
(* Scheduling.  handle_video is a coroutine: it runs without interruption  *)
(* from one await to the next, and other invocations may run while it is   *)
(* suspended at an await.  One step of the model is one such run.          *)
(* processor.process_video is an ordinary (blocking) call, so the whole    *)
(* call happens inside one step.                                           *)
(*                                                                         *)
(* The variable driver says what drives the run: the handler of app.py,    *)
(* the handler of bot.py, or a direct call of a method of VideoProcessor    *)
(* with arguments drawn from bounded sets.                                 *)
(***************************************************************************)
EXTENDS Integers, Sequences, FiniteSets, TLC

VARIABLES
    driver,          \* "app" | "bot" | "direct"
    overlay_exists,  \* processor.overlay_path.exists()
    active,          \* keys of active_users (app.py) / user_tasks (bot.py)
    temp,            \* entries of processor.temp_dir
    output,          \* files of processor.output_dir
    handlers,        \* the handle_video invocations
    pv,              \* the last process_video call: arguments, result, tool invocations
    fn               \* the last direct call of another method of VideoProcessor

vars == <<driver, overlay_exists, active, temp, output, handlers, pv, fn>>

(***************************************************************************)
(* Bounds                                                                  *)
(***************************************************************************)
NumHandlers == 2
NumUsers == 2
\* direct calls of cleanup in a row
MaxCleanups == 2

Handlers == 1..NumHandlers
Users == 1..NumUsers

(***************************************************************************)
(* Program constants                                                       *)
(***************************************************************************)
MAX_SIZE == 500000000
MAX_FILE_SIZE == 500000000
MinOutputSize == 10240
MinOverlayHeight == 30
DefaultWidth == 1280
DefaultHeight == 720
DefaultDuration == 5
MissingDuration == 0

SUPPORTED_EXTENSIONS == {".mp4", ".MP4", ".Mp4"}

(***************************************************************************)
(* Files                                                                   *)
(***************************************************************************)
None == <<>>

\* processor.temp_dir / f"input_{user_id}_{file_obj.file_id}.mp4"
FileIds == {"f1"}
input_path_of(user_id, file_id) == <<"input", user_id, file_id>>

\* An entry of temp_dir: by is the handler invocation that downloaded it,
\* 0 for an entry left by an earlier run of the program.
StaleFile == [path |-> <<"stale", 0, "f0">>, by |-> 0, is_file |-> TRUE]
SubDir == [path |-> <<"subdir", 0, "f0">>, by |-> 0, is_file |-> FALSE]

\* Where the input_path argument of process_video points: into temp_dir, or
\* to a file outside it (there: whether that file exists).
TempInput(p) == [loc |-> "temp", path |-> p, present |-> FALSE]
OutsideInput(b) == [loc |-> "outside", path |-> <<"outside", 0, "f0">>, present |-> b]

\* input_path.exists()
path_exists(input, T) ==
    IF input.loc = "temp"
    THEN \E e \in T : e.path = input.path
    ELSE input.present

\* item.unlink() of one path of temp_dir
unlink(T, p) == {e \in T : e.path # p}

\* file.download_to_drive(input_path): creates or overwrites the file
download_to_drive(T, p, h) == unlink(T, p) \cup {[path |-> p, by |-> h, is_file |-> TRUE]}

\* The directories of VideoProcessor under downloads/: the overlay asset is
\* overlay_dir / "Family Home.mp4"
overlay_dir == "overlay"
output_dir == "output"

\* Mutant of temp_dir: temporary files are kept next to the overlay asset
temp_dir_overlay == "overlay"

temp_dir == "temp"

\* overlay_path.exists() after cleanup, which unlinks the regular files
\* that are directly in temp_dir
cleanup_overlay(exists) == exists /\ temp_dir # overlay_dir

\* overlay_path.exists() after the compose run, which writes
\* output_dir / output_filename
compose_overlay(exists) == exists \/ output_dir = overlay_dir

\* Mutant of cleanup: the loop stops after the first file it unlinks
cleanup_first_file(T) ==
    IF \A e \in T : ~e.is_file THEN T
    ELSE T \ {CHOOSE e \in T : e.is_file}

\* VideoProcessor.cleanup: unlinks every regular file of temp_dir
cleanup(T) == {e \in T : ~e.is_file}

\* clean_temp_files of the VideoProcessor revision bot.py was written against
clean_temp_files(T) == {e \in T : ~e.is_file}

(***************************************************************************)
(* File names of the incoming message                                      *)
(***************************************************************************)
NoName == <<"", "">>
VideoName == <<"video", ".mp4">>
DocNames == {<<"clip", ".mp4">>, <<"notes", ".txt">>, NoName}

\* str.lower() on the suffixes that occur
Lower(ext) == IF ext \in {".mp4", ".MP4", ".Mp4", ".mP4"} THEN ".mp4" ELSE ext

Requests ==
    [kind : {"video"}, file_name : {NoName}, file_size : {1, MAX_SIZE, MAX_SIZE + 1}]
    \cup [kind : {"document"}, file_name : DocNames, file_size : {1, MAX_SIZE + 1}]

\* filename / file_name of handle_video
filename_of(req) ==
    IF req.kind = "video" THEN VideoName
    ELSE IF req.file_name = NoName THEN VideoName ELSE req.file_name

\* app.py: output_filename = f"processed_{filename}"
app_output_filename(filename) == <<"processed_", filename[1], filename[2]>>
\* bot.py: output_filename = f"processed_{Path(file_name).stem}.mp4"
bot_output_filename(filename) == <<"processed_", filename[1], ".mp4">>

(***************************************************************************)
(* The external tool.  A response to one invocation: the process exited    *)
(* with a return code and a stdout, the timeout of subprocess.run fired,   *)
(* or the process could not be spawned.  stdout is kept as the list of its *)
(* comma-separated fields after strip(); a field is a number or not.       *)
(***************************************************************************)
Num(v) == [num |-> TRUE, val |-> v]
NotNum == [num |-> FALSE, val |-> 0]

Exit(rc, stdout) == [kind |-> "exit", rc |-> rc, stdout |-> stdout]
Timeout == [kind |-> "timeout", rc |-> 0, stdout |-> <<>>]
OSError == [kind |-> "oserror", rc |-> 0, stdout |-> <<>>]

DimStdouts == {<<>>, <<Num(1920), Num(1080)>>, <<Num(1280), Num(720)>>, <<Num(640), Num(20)>>,
               <<NotNum>>, <<Num(640), NotNum>>}
DurStdouts == {<<>>, <<Num(3)>>, <<NotNum>>}

DimResponses == {Exit(rc, out) : rc \in {0, 1}, out \in DimStdouts} \cup {Timeout, OSError}
DurResponses == {Exit(rc, out) : rc \in {0, 1}, out \in DurStdouts} \cup {Timeout, OSError}
RunResponses == {Exit(0, <<>>), Exit(1, <<>>), Timeout, OSError}

\* What an invocation of the compose command leaves at output_path: nothing,
\* or a file of some size (ffmpeg -y overwrites).  A process that was never
\* spawned writes nothing.
NoWrite == [write |-> FALSE, size |-> 0]
Write(n) == [write |-> TRUE, size |-> n]
AllWrites == {NoWrite, Write(0), Write(MinOutputSize), Write(MinOutputSize + 1)}
ComposeRuns == {cw \in RunResponses \X AllWrites : cw[1].kind = "oserror" => cw[2] = NoWrite}

write_output(O, name, w) ==
    IF w.write
    THEN {f \in O : f.name # name} \cup {[name |-> name, size |-> w.size]}
    ELSE O

\* One invocation of the tool, as logged in pv.calls
Call(tool, resp) == [tool |-> tool, resp |-> resp]

(***************************************************************************)
(* VideoProcessor                                                          *)
(***************************************************************************)
\* paths of _find_ffmpeg, in the order they are tried; a path or an output
\* is a sequence of tokens, "\n" the newline that ends a line of output
paths == << <<"/app/vendor/ffmpeg/ffmpeg">>, <<"/usr/local/bin/ffmpeg">>,
           <<"/usr/bin/ffmpeg">>, <<"ffmpeg">> >>

\* What subprocess.run([path, "-version"]) does: exits 0, exits non-zero,
\* or raises (no such file, timeout)
VersionRuns == {"ok", "nonzero", "raises"}

\* What subprocess.run(["which", "ffmpeg"]) does; when "ffmpeg" cannot be
\* started from PATH, which does not find it either
WhichRuns == {Exit(0, <<"/opt/ffmpeg/bin/ffmpeg", "\n">>), Exit(1, <<>>), OSError}
Environments ==
    {e \in [version : [DOMAIN paths -> VersionRuns], which : WhichRuns] :
        e.version[Len(paths)] = "raises" => e.which # Exit(0, <<"/opt/ffmpeg/bin/ffmpeg", "\n">>)}

\* str.strip()
strip(out) == SelectSeq(out, LAMBDA t : t # "\n")

\* Mutant of find_ffmpeg: the loop does not return at the first success, the
\* last candidate that answered wins
find_ffmpeg_last(version, which) ==
    LET found == {i \in DOMAIN paths : version[i] = "ok"}
    IN  IF found # {} THEN paths[CHOOSE i \in found : \A j \in found : j <= i]
        ELSE IF which.kind = "exit" /\ which.rc = 0 THEN strip(which.stdout)
        ELSE <<"ffmpeg">>

\* _find_ffmpeg
find_ffmpeg(version, which) ==
    LET found == {i \in DOMAIN paths : version[i] = "ok"}
    IN  IF found # {} THEN paths[CHOOSE i \in found : \A j \in found : i <= j]
        ELSE IF which.kind = "exit" /\ which.rc = 0 THEN strip(which.stdout)
        ELSE <<"ffmpeg">>

\* what a probe hands back: value is what it returns, called tells whether
\* the tool was run, raised whether an exception left the method
Returned(value, called) == [value |-> value, called |-> called, raised |-> FALSE]
Raised(called) == [value |-> <<>>, called |-> called, raised |-> TRUE]

\* float(result.stdout.strip()) succeeds
duration_parses(stdout) == Len(stdout) = 1 /\ stdout[1].num

\* map(int, result.stdout.strip().split(',')) unpacks into width, height
dimensions_parse(stdout) == Len(stdout) = 2 /\ stdout[1].num /\ stdout[2].num

\* get_video_info(video_path)
get_video_info(exists, resp) ==
    IF ~exists THEN Returned(MissingDuration, FALSE)
    ELSE IF resp.kind # "exit" THEN Returned(DefaultDuration, TRUE)
    ELSE IF resp.rc = 0 /\ resp.stdout # <<>>
         THEN IF duration_parses(resp.stdout)
              THEN Returned(resp.stdout[1].val, TRUE)
              ELSE Returned(DefaultDuration, TRUE)
         ELSE Returned(DefaultDuration, TRUE)

\* Mutant of get_video_dimensions: the unpacking of a malformed answer is
\* not inside the try, so its ValueError leaves the method
get_video_dimensions_unguarded(exists, resp) ==
    IF ~exists THEN Returned(<<DefaultWidth, DefaultHeight>>, FALSE)
    ELSE IF resp.kind # "exit" THEN Returned(<<DefaultWidth, DefaultHeight>>, TRUE)
    ELSE IF resp.rc = 0 /\ resp.stdout # <<>>
         THEN IF dimensions_parse(resp.stdout)
              THEN Returned(<<resp.stdout[1].val, resp.stdout[2].val>>, TRUE)
              ELSE Raised(TRUE)
         ELSE Returned(<<DefaultWidth, DefaultHeight>>, TRUE)

\* get_video_dimensions(video_path)
get_video_dimensions(exists, resp) ==
    IF ~exists THEN Returned(<<DefaultWidth, DefaultHeight>>, FALSE)
    ELSE IF resp.kind # "exit" THEN Returned(<<DefaultWidth, DefaultHeight>>, TRUE)
    ELSE IF resp.rc = 0 /\ resp.stdout # <<>>
         THEN IF dimensions_parse(resp.stdout)
              THEN Returned(<<resp.stdout[1].val, resp.stdout[2].val>>, TRUE)
              ELSE Returned(<<DefaultWidth, DefaultHeight>>, TRUE)
         ELSE Returned(<<DefaultWidth, DefaultHeight>>, TRUE)

\* run_ffmpeg(cmd): (success, error)
run_ffmpeg(resp) ==
    IF resp.kind = "exit"
    THEN IF resp.rc # 0 THEN <<FALSE, "stderr">> ELSE <<TRUE, "stdout">>
    ELSE IF resp.kind = "timeout" THEN <<FALSE, "Timeout">>
    ELSE <<FALSE, "str(e)">>

\* Mutant of overlay_height_of: the band height comes from fixed thresholds
overlay_height_of_thresholds(video_height) ==
    IF video_height <= 360 THEN 30 ELSE IF video_height <= 720 THEN 45 ELSE 60

\* overlay_height = max(30, video_height // 10)
overlay_height_of(video_height) ==
    IF video_height \div 10 > MinOverlayHeight THEN video_height \div 10 ELSE MinOverlayHeight

\* overlay_y = video_height - overlay_height
overlay_y_of(video_height) == video_height - overlay_height_of(video_height)

\* Mutant of size_ok: the threshold itself is accepted
size_ok_inclusive(file_size) == file_size >= MinOutputSize

\* file_size > 10240
size_ok(file_size) == file_size > MinOutputSize

\* verify_result.returncode == 0; a timeout or spawn failure of the verify
\* run raises and is caught by the except of process_video
verify_ok(resp) == resp.kind = "exit" /\ resp.rc = 0

NoGeom == <<>>
PVResult(ret, T, O, calls, geom) ==
    [ret |-> ret, temp |-> T, output |-> O, calls |-> calls, geom |-> geom,
     overlay |-> IF \E i \in DOMAIN calls : calls[i].tool = "compose"
                 THEN compose_overlay(cleanup_overlay(overlay_exists))
                 ELSE cleanup_overlay(overlay_exists)]

\* Mutant of process_video_compose: a failed compose run is tried once more
process_video_compose_retry(T, O, output_filename, calls, geom, c, w, v) ==
    LET O1 == write_output(O, output_filename, w)
        calls1 == Append(calls, Call("compose", c))
        found == {f \in O1 : f.name = output_filename}
    IN  IF ~run_ffmpeg(c)[1] THEN PVResult(None, T, O1, Append(calls1, Call("compose", v)), geom)
        ELSE IF found = {} THEN PVResult(None, T, O1, calls1, geom)
        ELSE IF ~(\A f \in found : size_ok(f.size)) THEN PVResult(None, T, O1, calls1, geom)
        ELSE IF verify_ok(v)
             THEN PVResult(<<output_filename>>, T, O1, Append(calls1, Call("verify", v)), geom)
             ELSE PVResult(None, T, O1, Append(calls1, Call("verify", v)), geom)

\* process_video from "Run FFmpeg" on: c, w the response and the write of
\* the compose run, v the response of the verify run
process_video_compose(T, O, output_filename, calls, geom, c, w, v) ==
    LET O1 == write_output(O, output_filename, w)
        calls1 == Append(calls, Call("compose", c))
        found == {f \in O1 : f.name = output_filename}
    IN  IF ~run_ffmpeg(c)[1] THEN PVResult(None, T, O1, calls1, geom)
        ELSE IF found = {} THEN PVResult(None, T, O1, calls1, geom)
        ELSE IF ~(\A f \in found : size_ok(f.size)) THEN PVResult(None, T, O1, calls1, geom)
        ELSE IF verify_ok(v)
             THEN PVResult(<<output_filename>>, T, O1, Append(calls1, Call("verify", v)), geom)
             ELSE PVResult(None, T, O1, Append(calls1, Call("verify", v)), geom)

\* Mutant of process_video_probe: the two probes are one query, and when
\* the duration part of it fails the dimensions fall back to their default
\* as well
process_video_probe_joint(T, O, input, output_filename, d, u, c, w, v) ==
    LET dur == get_video_info(cleanup_overlay(overlay_exists), u)
        failed == u.kind # "exit" \/ u.rc # 0
        dims == IF failed THEN Returned(<<DefaultWidth, DefaultHeight>>, TRUE)
                ELSE get_video_dimensions(path_exists(input, T), d)
        calls == <<Call("dimensions", d), Call("duration", u)>>
        video_height == dims.value[2]
        geom == [video_width |-> dims.value[1], video_height |-> video_height,
                 overlay_duration |-> dur.value,
                 overlay_height |-> overlay_height_of(video_height),
                 overlay_y |-> overlay_y_of(video_height)]
    IN  process_video_compose(T, O, output_filename, calls, geom, c, w, v)

\* Mutant of process_video_probe: the duration of the overlay is probed
\* before the dimensions of the input
process_video_probe_swapped(T, O, input, output_filename, d, u, c, w, v) ==
    LET dims == get_video_dimensions(path_exists(input, T), d)
        dur == get_video_info(cleanup_overlay(overlay_exists), u)
        calls0 == IF dur.called THEN <<Call("duration", u)>> ELSE <<>>
        calls == calls0 \o (IF dims.called THEN <<Call("dimensions", d)>> ELSE <<>>)
    IN  IF dur.raised THEN PVResult(None, T, O, calls0, NoGeom)
        ELSE IF dims.raised THEN PVResult(None, T, O, calls, NoGeom)
        ELSE LET video_height == dims.value[2]
                 geom == [video_width |-> dims.value[1], video_height |-> video_height,
                          overlay_duration |-> dur.value,
                          overlay_height |-> overlay_height_of(video_height),
                          overlay_y |-> overlay_y_of(video_height)]
             IN  process_video_compose(T, O, output_filename, calls, geom, c, w, v)

\* process_video from "Get video info" on: d, u the responses to the two
\* probes; an exception leaving a probe is caught by the except of
\* process_video
process_video_probe(T, O, input, output_filename, d, u, c, w, v) ==
    LET dims == get_video_dimensions(path_exists(input, T), d)
        dur == get_video_info(cleanup_overlay(overlay_exists), u)
        calls0 == IF dims.called THEN <<Call("dimensions", d)>> ELSE <<>>
        calls == calls0 \o (IF dur.called THEN <<Call("duration", u)>> ELSE <<>>)
    IN  IF dims.raised THEN PVResult(None, T, O, calls0, NoGeom)
        ELSE IF dur.raised THEN PVResult(None, T, O, calls, NoGeom)
        ELSE LET video_height == dims.value[2]
                 geom == [video_width |-> dims.value[1], video_height |-> video_height,
                          overlay_duration |-> dur.value,
                          overlay_height |-> overlay_height_of(video_height),
                          overlay_y |-> overlay_y_of(video_height)]
             IN  process_video_compose(T, O, output_filename, calls, geom, c, w, v)

\* process_video(input_path, output_filename): every outcome the call can
\* have on temp_dir T and output_dir O, over the responses of the tool
process_video(T, O, input, output_filename) ==
    LET T1 == cleanup(T)
    IN  IF ~path_exists(input, T1) THEN {PVResult(None, T1, O, <<>>, NoGeom)}
        ELSE IF ~cleanup_overlay(overlay_exists) THEN {PVResult(None, T1, O, <<>>, NoGeom)}
        ELSE {process_video_probe(T1, O, input, output_filename, d, u, cw[1], cw[2], v) :
                d \in DimResponses, u \in DurResponses,
                cw \in ComposeRuns, v \in RunResponses}

(***************************************************************************)
(* handle_video: state of one invocation                                   *)
(***************************************************************************)
\* pc names the await the invocation is suspended at
RejectPcs == {"reply_busy", "reply_no_overlay", "reply_bad_format", "reply_too_large"}
TryPcs == {"send_chat_action", "reply_downloading", "get_file", "download",
           "edit_processing", "edit_failed", "edit_uploading", "send_video",
           "delete_status", "reply_timeout", "reply_error"}
Outcomes == {"ok", "error", "timeout"}

Idle == [pc |-> "idle", user |-> 0, filename |-> NoName, has_input |-> FALSE,
         output_path |-> None, exit |-> "none"]

\* the invocation has returned or raised: its locals are gone
Done(h, exit) == [Idle EXCEPT !.pc = "done", !.user = handlers[h].user, !.exit = exit]

NoCall == [called |-> FALSE, by |-> 0, input |-> OutsideInput(FALSE),
           output_filename |-> NoName, ret |-> None, calls |-> <<>>, geom |-> NoGeom]
PVCall(h, input, output_filename, r) ==
    [called |-> TRUE, by |-> h, input |-> input, output_filename |-> output_filename,
     ret |-> r.ret, calls |-> r.calls, geom |-> r.geom]

\* a step of invocation h that ran cleanup or process_video: ov is
\* overlay_path.exists() after it
UpdateFiles(h, rec, A, T, O, P, ov) ==
    /\ handlers' = [handlers EXCEPT ![h] = rec]
    /\ active' = A
    /\ temp' = T
    /\ output' = O
    /\ pv' = P
    /\ overlay_exists' = ov
    /\ UNCHANGED <<driver, fn>>

Update(h, rec, A, T, O, P) == UpdateFiles(h, rec, A, T, O, P, overlay_exists)

Goto(h, pc) == Update(h, [handlers[h] EXCEPT !.pc = pc], active, temp, output, pv)

\* input_path of the invocation (file_id is the only one of FileIds)
input_path(h) == input_path_of(handlers[h].user, "f1")

\* an await inside the try raised: control goes to the matching except clause
Except(h, o, T) ==
    Update(h, [handlers[h] EXCEPT !.pc = IF o = "timeout" THEN "reply_timeout" ELSE "reply_error"],
           active, T, output, pv)

(***************************************************************************)
(* app.py                                                                  *)
(***************************************************************************)
\* Mutant of app_is_active: the membership test looks at the values of the
\* dict, which never hold a user id
app_is_active_values(user_id) == user_id \in {}

\* Mutant of app_is_active: one lock for all requesters, any job in flight
\* makes the request busy
app_is_active_anyone(user_id) == active # {}

\* if user_id in active_users
app_is_active(user_id) == user_id \in active

\* active_users[user_id] = True
app_mark_active(user_id) == active \cup {user_id}

\* Mutant of app_pop: the entry is not removed
app_pop_missing(user_id) == active

\* active_users.pop(user_id, None)
app_pop(user_id) == active \ {user_id}

\* Mutant of app_overlay_missing: the overlay is not checked
app_overlay_unchecked == FALSE

\* if not processor.overlay_path.exists()
app_overlay_missing == ~overlay_exists

\* Mutant of app_finally_temp: the finally clause leaves temp_dir alone
app_finally_temp_skipped(h) == temp

\* finally: "Delete input file" and "Clean temp files"
app_finally_temp(h) ==
    cleanup(IF handlers[h].has_input THEN unlink(temp, input_path(h)) ELSE temp)

\* the finally clause, then the invocation ends
app_finally(h, exit) ==
    UpdateFiles(h, Done(h, exit), app_pop(handlers[h].user), app_finally_temp(h), output, pv,
                cleanup_overlay(overlay_exists))

\* Mutant of app_rejected: the rejection returns from inside the try, so the
\* finally clause runs
app_rejected_in_try(h) == app_finally(h, "busy")

\* return after the reply of a rejected request (before the try)
app_rejected(h) ==
    Update(h, Done(h, IF handlers[h].pc = "reply_busy" THEN "busy" ELSE "refused"),
           active, temp, output, pv)

\* handle_video from its entry to its first await
app_handle_video(h, user_id, req) ==
    LET filename == filename_of(req)
        rec == [Idle EXCEPT !.user = user_id, !.filename = filename]
    IN  IF app_is_active(user_id)
        THEN Update(h, [rec EXCEPT !.pc = "reply_busy"], active, temp, output, pv)
        ELSE IF app_overlay_missing
        THEN Update(h, [rec EXCEPT !.pc = "reply_no_overlay"], active, temp, output, pv)
        ELSE IF req.kind = "document" /\ Lower(filename[2]) # ".mp4"
        THEN Update(h, [rec EXCEPT !.pc = "reply_bad_format"], active, temp, output, pv)
        ELSE IF req.file_size > MAX_SIZE
        THEN Update(h, [rec EXCEPT !.pc = "reply_too_large"], active, temp, output, pv)
        ELSE Update(h, [rec EXCEPT !.pc = "send_chat_action"],
                    app_mark_active(user_id), temp, output, pv)

\* output_path = processor.process_video(input_path, output_filename), then
\* up to the next await
app_process(h) ==
    LET input == TempInput(input_path(h))
        output_filename == app_output_filename(handlers[h].filename)
    IN  \E r \in process_video(temp, output, input, output_filename) :
            UpdateFiles(h, [handlers[h] EXCEPT !.output_path = r.ret,
                                !.pc = IF r.ret = None THEN "edit_failed" ELSE "edit_uploading"],
                        active, r.temp, r.output, PVCall(h, input, output_filename, r),
                        r.overlay)

\* output_path.stat() and open(output_path, 'rb'), then await send_video
app_open_output(h) ==
    IF \E f \in output : <<f.name>> = handlers[h].output_path
    THEN Goto(h, "send_video")
    ELSE Except(h, "error", temp)

\* handle_video from the await it is suspended at, which ends with outcome
\* o, to its next await or its end
app_resume(h, o) ==
    LET pc == handlers[h].pc
    IN  CASE pc \in RejectPcs -> app_rejected(h)
          [] pc = "send_chat_action" ->
                IF o = "ok" THEN Goto(h, "reply_downloading") ELSE Except(h, o, temp)
          [] pc = "reply_downloading" ->
                IF o = "ok"
                THEN Update(h, [handlers[h] EXCEPT !.pc = "get_file", !.has_input = TRUE],
                            active, temp, output, pv)
                ELSE Except(h, o, temp)
          [] pc = "get_file" ->
                IF o = "ok" THEN Goto(h, "download") ELSE Except(h, o, temp)
          [] pc = "download" ->
                IF o = "ok"
                THEN Update(h, [handlers[h] EXCEPT !.pc = "edit_processing"], active,
                            download_to_drive(temp, input_path(h), h), output, pv)
                ELSE \E partial \in BOOLEAN :
                        Except(h, o, IF partial THEN download_to_drive(temp, input_path(h), h)
                                     ELSE temp)
          [] pc = "edit_processing" ->
                IF o = "ok" THEN app_process(h) ELSE Except(h, o, temp)
          [] pc = "edit_failed" ->
                IF o = "ok" THEN app_finally(h, "failed") ELSE Except(h, o, temp)
          [] pc = "edit_uploading" ->
                IF o = "ok" THEN app_open_output(h) ELSE Except(h, o, temp)
          [] pc = "send_video" ->
                IF o = "ok" THEN Goto(h, "delete_status") ELSE Except(h, o, temp)
          [] pc = "delete_status" ->
                IF o = "ok" THEN app_finally(h, "success") ELSE Except(h, o, temp)
          [] pc = "reply_timeout" ->
                IF o = "ok" THEN app_finally(h, "timeout") ELSE app_finally(h, "raised")
          [] pc = "reply_error" -> app_finally(h, "error")

(***************************************************************************)
(* bot.py                                                                  *)
(***************************************************************************)
\* if user_id in user_tasks
bot_is_active(user_id) == user_id \in active

\* user_tasks[user_id] = True
bot_mark_active(user_id) == active \cup {user_id}

\* user_tasks.pop(user_id, None)
bot_pop(user_id) == active \ {user_id}

\* if not video_processor.overlay_path.exists()
bot_overlay_missing == ~overlay_exists

\* the finally clause, then the invocation ends
bot_finally(h, exit, T, O) ==
    Update(h, Done(h, exit), bot_pop(handlers[h].user), clean_temp_files(T), O, pv)

\* return after the reply of a rejected request (before the try)
bot_rejected(h) ==
    Update(h, Done(h, IF handlers[h].pc = "reply_busy" THEN "busy" ELSE "refused"),
           active, temp, output, pv)

\* handle_video from its entry to its first await
bot_handle_video(h, user_id, req) ==
    LET file_name == filename_of(req)
        rec == [Idle EXCEPT !.user = user_id, !.filename = file_name]
    IN  IF bot_is_active(user_id)
        THEN Update(h, [rec EXCEPT !.pc = "reply_busy"], active, temp, output, pv)
        ELSE IF bot_overlay_missing
        THEN Update(h, [rec EXCEPT !.pc = "reply_no_overlay"], active, temp, output, pv)
        ELSE IF req.kind = "document" /\ file_name[2] \notin SUPPORTED_EXTENSIONS
        THEN Update(h, [rec EXCEPT !.pc = "reply_bad_format"], active, temp, output, pv)
        ELSE IF req.file_size > MAX_FILE_SIZE
        THEN Update(h, [rec EXCEPT !.pc = "reply_too_large"], active, temp, output, pv)
        ELSE Update(h, [rec EXCEPT !.pc = "reply_downloading"], active, temp, output, pv)

\* the reply "Downloading your video..." returned: enter the try
bot_enter_try(h) ==
    Update(h, [handlers[h] EXCEPT !.pc = "get_file", !.has_input = TRUE],
           bot_mark_active(handlers[h].user), temp, output, pv)

\* output_path = video_processor.process_video(input_path, output_filename),
\* then up to the next await
bot_process(h) ==
    LET input == TempInput(input_path(h))
        output_filename == bot_output_filename(handlers[h].filename)
    IN  \E r \in process_video(temp, output, input, output_filename) :
            UpdateFiles(h, [handlers[h] EXCEPT !.output_path = r.ret,
                                !.pc = IF r.ret = None \/ ~(\E f \in r.output : <<f.name>> = r.ret)
                                       THEN "edit_failed" ELSE "edit_uploading"],
                        active, r.temp, r.output, PVCall(h, input, output_filename, r),
                        r.overlay)

\* open(output_path, 'rb'), then await send_video
bot_open_output(h) ==
    IF \E f \in output : <<f.name>> = handlers[h].output_path
    THEN Goto(h, "send_video")
    ELSE Except(h, "error", temp)

\* "Delete temporary files" after the upload, then the finally clause
bot_delete_files(h) ==
    bot_finally(h, "success", unlink(temp, input_path(h)),
                {f \in output : <<f.name>> # handlers[h].output_path})

bot_resume(h, o) ==
    LET pc == handlers[h].pc
    IN  CASE pc \in RejectPcs -> bot_rejected(h)
          [] pc = "reply_downloading" ->
                IF o = "ok" THEN bot_enter_try(h)
                ELSE Update(h, Done(h, "raised"), active, temp, output, pv)
          [] pc = "get_file" ->
                IF o = "ok" THEN Goto(h, "download") ELSE Except(h, o, temp)
          [] pc = "download" ->
                IF o = "ok"
                THEN Update(h, [handlers[h] EXCEPT !.pc = "edit_processing"], active,
                            download_to_drive(temp, input_path(h), h), output, pv)
                ELSE \E partial \in BOOLEAN :
                        Except(h, o, IF partial THEN download_to_drive(temp, input_path(h), h)
                                     ELSE temp)
          [] pc = "edit_processing" ->
                IF o = "ok" THEN bot_process(h) ELSE Except(h, o, temp)
          [] pc = "edit_failed" ->
                IF o = "ok" THEN bot_finally(h, "failed", temp, output) ELSE Except(h, o, temp)
          [] pc = "edit_uploading" ->
                IF o = "ok" THEN bot_open_output(h) ELSE Except(h, o, temp)
          [] pc = "send_video" ->
                IF o = "ok" THEN Goto(h, "delete_status") ELSE Except(h, o, temp)
          [] pc = "delete_status" ->
                IF o = "ok" THEN bot_delete_files(h) ELSE Except(h, o, temp)
          [] pc = "reply_timeout" ->
                IF o = "ok" THEN bot_finally(h, "timeout", temp, output)
                ELSE bot_finally(h, "raised", temp, output)
          [] pc = "reply_error" ->
                IF o = "ok" THEN bot_finally(h, "error", temp, output)
                ELSE bot_finally(h, "raised", temp, output)

\* a method of VideoProcessor called directly: its name, arguments and result
NoFn == [name |-> "none", arg |-> <<>>, result |-> <<>>]
FnCall(name, arg, result) == [name |-> name, arg |-> arg, result |-> result]

(***************************************************************************)
(* Specification                                                           *)
(***************************************************************************)
StaleInput == [path |-> input_path_of(1, "f1"), by |-> 0, is_file |-> TRUE]
StaleOutput == [name |-> app_output_filename(VideoName), size |-> MinOutputSize + 1]

Init ==
    /\ driver \in {"app", "bot", "direct"}
    /\ overlay_exists \in BOOLEAN
    /\ active = {}
    /\ temp \in SUBSET (IF driver = "direct" THEN {StaleFile, SubDir, StaleInput} ELSE {StaleFile})
    /\ output \in SUBSET (IF driver = "direct" THEN {StaleOutput} ELSE {})
    /\ handlers = [h \in Handlers |-> Idle]
    /\ pv = NoCall
    /\ fn = NoFn

\* The users seen so far.  The code only compares user ids for equality, so
\* a user not seen before is taken to be the next unused id.
Seen == {handlers[h].user : h \in Handlers} \ {0}
NextUsers == {u \in Users : u <= Cardinality(Seen) + 1}

\* An update is dispatched to handle_video; invocations start in the order
\* of the updates.
Arrive(h) ==
    /\ driver \in {"app", "bot"}
    /\ handlers[h].pc = "idle"
    /\ h > 1 => handlers[h - 1].pc # "idle"
    /\ \E user_id \in NextUsers, req \in Requests :
          IF driver = "app" THEN app_handle_video(h, user_id, req)
          ELSE bot_handle_video(h, user_id, req)

\* The await an invocation is suspended at ends, with a result or an exception
Resume(h) ==
    /\ driver \in {"app", "bot"}
    /\ handlers[h].pc \notin {"idle", "done"}
    /\ \E o \in Outcomes :
          IF driver = "app" THEN app_resume(h, o) ELSE bot_resume(h, o)

\* process_video called directly
DirectInputs == {TempInput(input_path_of(1, "f1")), OutsideInput(TRUE), OutsideInput(FALSE)}

DirectCall ==
    /\ driver = "direct"
    /\ ~pv.called
    /\ fn.name = "none"
    /\ \E input \in DirectInputs :
          \E r \in process_video(temp, output, input, app_output_filename(VideoName)) :
              /\ temp' = r.temp
              /\ output' = r.output
              /\ pv' = PVCall(0, input, app_output_filename(VideoName), r)
              /\ overlay_exists' = r.overlay
              /\ UNCHANGED <<driver, active, handlers, fn>>

\* get_video_info called directly on a path that exists or not
DirectInfo ==
    /\ driver = "direct"
    /\ ~pv.called
    /\ fn.name = "none"
    /\ \E exists \in BOOLEAN, u \in DurResponses :
          fn' = FnCall("get_video_info", [exists |-> exists, resp |-> u],
                       get_video_info(exists, u))
    /\ UNCHANGED <<driver, overlay_exists, active, temp, output, handlers, pv>>

\* get_video_dimensions called directly on a path that exists or not
DirectDimensions ==
    /\ driver = "direct"
    /\ ~pv.called
    /\ fn.name = "none"
    /\ \E exists \in BOOLEAN, d \in DimResponses :
          fn' = FnCall("get_video_dimensions", [exists |-> exists, resp |-> d],
                       get_video_dimensions(exists, d))
    /\ UNCHANGED <<driver, overlay_exists, active, temp, output, handlers, pv>>

\* cleanup called directly, up to MaxCleanups times in a row: arg is
\* temp_dir before the first call, result temp_dir after each call
DirectCleanup ==
    /\ driver = "direct"
    /\ ~pv.called
    /\ fn.name \in {"none", "cleanup"}
    /\ fn.name = "cleanup" => Len(fn.result) < MaxCleanups
    /\ temp' = cleanup(temp)
    /\ fn' = IF fn.name = "none" THEN FnCall("cleanup", temp, <<cleanup(temp)>>)
             ELSE [fn EXCEPT !.result = Append(@, cleanup(temp))]
    /\ overlay_exists' = cleanup_overlay(overlay_exists)
    /\ UNCHANGED <<driver, active, output, handlers, pv>>

\* _find_ffmpeg called in an environment drawn from Environments
DirectFind ==
    /\ driver = "direct"
    /\ ~pv.called
    /\ fn.name = "none"
    /\ \E e \in Environments :
          fn' = FnCall("_find_ffmpeg", e, find_ffmpeg(e.version, e.which))
    /\ UNCHANGED <<driver, overlay_exists, active, temp, output, handlers, pv>>

Next ==
    \/ \E h \in Handlers : Arrive(h)
    \/ \E h \in Handlers : Resume(h)
    \/ DirectCall
    \/ DirectInfo
    \/ DirectDimensions
    \/ DirectCleanup
    \/ DirectFind

Spec == Init /\ [][Next]_vars

(***************************************************************************)
(* Vocabulary of the properties                                            *)
(***************************************************************************)
\* The invocation has put its requester into the active set and has not ended
InFlight(h) ==
    IF driver = "app" THEN handlers[h].pc \in TryPcs
    ELSE handlers[h].pc \in TryPcs \ {"reply_downloading"}

\* output_filename of the invocation
output_filename(h) ==
    IF driver = "app" THEN app_output_filename(handlers[h].filename)
    ELSE bot_output_filename(handlers[h].filename)

\* The invocation ended after it had put its requester into the active set
EndedJob(h) ==
    /\ handlers[h].pc = "done"
    /\ handlers[h].exit \in {"failed", "success", "error", "timeout"}

\* The tool invocations of a process_video result
CallsOf(r, tool) == {i \in DOMAIN r.calls : r.calls[i].tool = tool}
TimedOut(r) ==
    \E i \in DOMAIN r.calls :
        r.calls[i].tool \in {"compose", "verify"} /\ r.calls[i].resp.kind = "timeout"
NonZeroExit(r, tool) ==
    \E i \in CallsOf(r, tool) : r.calls[i].resp.kind = "exit" /\ r.calls[i].resp.rc # 0
ZeroExit(r, tool) ==
    \E i \in CallsOf(r, tool) : r.calls[i].resp.kind = "exit" /\ r.calls[i].resp.rc = 0

(***************************************************************************)
(* Properties                                                              *)
(***************************************************************************)

\* C1: single flight per requester, in both handler revisions: no two
\* invocations of the same requester are in flight at once.
C1_SingleFlight ==
    \A h1, h2 \in Handlers :
        (h1 # h2 /\ InFlight(h1) /\ InFlight(h2)) => handlers[h1].user # handlers[h2].user

\* C2: in app.py no step deletes from temp_dir a file downloaded by an
\* invocation that is in flight, unless that invocation itself takes the step.
C2_NoForeignDelete ==
    [][\A e \in temp :
          (driver = "app" /\ e.by # 0 /\ InFlight(e.by)
              /\ ~(\E e2 \in temp' : e2.path = e.path))
              => handlers'[e.by] # handlers[e.by]]_vars

\* C3: in app.py two invocations in flight that have computed their paths have
\* different input paths and different output paths.
C3_DistinctPaths ==
    \A h1, h2 \in Handlers :
        (driver = "app" /\ h1 # h2 /\ InFlight(h1) /\ InFlight(h2)
            /\ handlers[h1].has_input /\ handlers[h2].has_input)
        => /\ input_path(h1) # input_path(h2)
           /\ output_filename(h1) # output_filename(h2)

\* C4: a request that arrives while its requester is in the active set is
\* rejected as busy; one that arrives while the requester is not in the set
\* (never admitted, or removed again) is not rejected as busy, and in app.py
\* it is admitted then and there unless a pre-check refuses it.
C4_RejectThenReadmit ==
    [][\A h \in Handlers :
          (handlers[h].pc = "idle" /\ handlers'[h].pc # "idle") =>
              LET u == handlers'[h].user
              IN  /\ u \in active => handlers'[h].pc = "reply_busy"
                  /\ u \notin active =>
                        /\ handlers'[h].pc # "reply_busy"
                        /\ (driver = "app" /\ handlers'[h].pc \notin RejectPcs)
                              => (u \in active' /\ handlers'[h].pc \in TryPcs)]_vars

\* C4 witness: in app.py a job of a requester has ended and a later request of
\* the same requester is in flight.
C4_Witness ==
    /\ driver = "app"
    /\ \E h1, h2 \in Handlers :
          /\ EndedJob(h1)
          /\ InFlight(h2)
          /\ handlers[h1].user = handlers[h2].user

\* C5: every requester in the active set has an invocation in flight: once an
\* invocation that admitted its requester has ended, on any exit path, the
\* requester is no longer locked out.
C5_Released ==
    \A u \in active : \E h \in Handlers : InFlight(h) /\ handlers[h].user = u

\* C5 witness: one job ended through the processing failure path and one
\* through an except clause, and nobody is left in the active set.
C5_Witness ==
    /\ active = {}
    /\ \E h1, h2 \in Handlers :
          /\ handlers[h1].pc = "done" /\ handlers[h1].exit = "failed"
          /\ handlers[h2].pc = "done" /\ handlers[h2].exit \in {"timeout", "error"}

\* C6: the steps of a request rejected as busy (the rejection and the return
\* after its reply) change neither the active set nor temp_dir nor output_dir,
\* and call neither process_video nor the tool.
C6_RejectNoEffect ==
    [][\A h \in Handlers :
          (\/ handlers[h].pc = "idle" /\ handlers'[h].pc = "reply_busy"
           \/ handlers[h].pc = "reply_busy" /\ handlers'[h] # handlers[h])
          => (active' = active /\ temp' = temp /\ output' = output /\ pv' = pv)]_vars

\* C6 witness: a request was rejected as busy and has returned, and the job of
\* the same requester is still in flight and still in the active set.
C6_Witness ==
    \E h1, h2 \in Handlers :
        /\ handlers[h1].pc = "done" /\ handlers[h1].exit = "busy"
        /\ InFlight(h2)
        /\ handlers[h2].user = handlers[h1].user
        /\ handlers[h1].user \in active

C8_NoOverlayNoSuccess ==
    ~overlay_exists =>
        /\ active = {}
        /\ \A h \in Handlers :
              /\ handlers[h].pc \in {"idle", "done"} \cup RejectPcs
              /\ handlers[h].exit \in {"none", "busy", "refused"}
        /\ pv.called => (pv.ret = None /\ pv.calls = <<>>)

\* C8 witness: process_video was called on an existing input with the
\* overlay missing.
C8_Witness == ~overlay_exists /\ pv.called /\ pv.input = OutsideInput(TRUE)

\* C9: a process_video call in which the compose or the verify run timed out
\* returns something else than a call whose compose or verify run exits
\* non-zero, and makes at most one compose and one verify run.
C9_TimeoutDistinct ==
    (pv.called /\ TimedOut(pv)) =>
        /\ \A r \in process_video(temp, output, pv.input, pv.output_filename) :
              (NonZeroExit(r, "compose") \/ NonZeroExit(r, "verify")) => r.ret # pv.ret
        /\ Cardinality(CallsOf(pv, "compose")) <= 1
        /\ Cardinality(CallsOf(pv, "verify")) <= 1

\* C10: in app.py, once an invocation has ended, temp_dir holds no file that
\* it downloaded.
C10_TempReleased ==
    driver = "app" =>
        \A h \in Handlers : handlers[h].pc = "done" => \A e \in temp : e.by # h

\* C10 witness: in app.py one job ended after a processing failure and one
\* through an except clause.
C10_Witness ==
    /\ driver = "app"
    /\ \E h1, h2 \in Handlers :
          /\ handlers[h1].pc = "done" /\ handlers[h1].exit = "failed"
          /\ handlers[h2].pc = "done" /\ handlers[h2].exit \in {"timeout", "error", "raised"}

\* C12: for every positive video height that process_video computed the
\* geometry from, the band lies inside the frame, 0 <= overlay_y < height,
\* and is at least 30 pixels tall.
C12_GeometryInFrame ==
    (pv.called /\ pv.calls # <<>> /\ pv.geom.video_height > 0) =>
        /\ 0 <= pv.geom.overlay_y
        /\ pv.geom.overlay_y < pv.geom.video_height
        /\ pv.geom.overlay_height >= MinOverlayHeight

\* C13: a probe of a path that does not exist returns the defaults, duration
\* 5.0 from get_video_info and (1280, 720) from get_video_dimensions, and
\* does not run the tool.
C13_MissingPathDefaults ==
    /\ (fn.name = "get_video_info" /\ ~fn.arg.exists) =>
          /\ ~fn.result.raised
          /\ fn.result.value = DefaultDuration
          /\ ~fn.result.called
    /\ (fn.name = "get_video_dimensions" /\ ~fn.arg.exists) =>
          /\ ~fn.result.raised
          /\ fn.result.value = <<DefaultWidth, DefaultHeight>>
          /\ ~fn.result.called

\* The tool answered a duration probe: exit 0 and one number on stdout
DurationAnswer(resp) ==
    resp.kind = "exit" /\ resp.rc = 0 /\ Len(resp.stdout) = 1 /\ resp.stdout[1].num

\* The tool answered a dimension probe: exit 0 and `width,height` on stdout
DimensionsAnswer(resp) ==
    /\ resp.kind = "exit" /\ resp.rc = 0
    /\ Len(resp.stdout) = 2 /\ \A i \in 1..2 : resp.stdout[i].num

\* C14: whatever the tool does on a probe of an existing file (non-zero
\* exit, empty or malformed output, timeout, spawn failure), the probe
\* returns, with the default when there is no answer, and process_video
\* still computes the geometry and runs the compose command.
C14_ProbesTotal ==
    /\ (fn.name = "get_video_info" /\ fn.arg.exists) =>
          /\ ~fn.result.raised
          /\ ~DurationAnswer(fn.arg.resp) => fn.result.value = DefaultDuration
    /\ (fn.name = "get_video_dimensions" /\ fn.arg.exists) =>
          /\ ~fn.result.raised
          /\ ~DimensionsAnswer(fn.arg.resp) =>
                fn.result.value = <<DefaultWidth, DefaultHeight>>
    /\ (pv.called /\ pv.calls # <<>>) =>
          /\ Len(pv.calls) >= 3
          /\ pv.calls[1].tool = "dimensions"
          /\ pv.calls[2].tool = "duration"
          /\ pv.calls[3].tool = "compose"
          /\ ~DimensionsAnswer(pv.calls[1].resp) =>
                /\ pv.geom.video_width = DefaultWidth
                /\ pv.geom.video_height = DefaultHeight
                /\ pv.geom.overlay_y = DefaultHeight - pv.geom.overlay_height
          /\ ~DurationAnswer(pv.calls[2].resp) =>
                pv.geom.overlay_duration = DefaultDuration

\* C14 witness: a process_video call whose dimension probe got a malformed
\* answer and whose duration probe timed out, and which ran the compose
\* command and returned the output.
C14_Witness ==
    /\ pv.called /\ Len(pv.calls) >= 3
    /\ pv.calls[1].resp = Exit(0, <<Num(640), NotNum>>)
    /\ pv.calls[2].resp = Timeout
    /\ pv.calls[3].tool = "compose"
    /\ pv.geom.video_height = DefaultHeight
    /\ pv.ret # None

\* C15: when cleanup is called again right after cleanup, the second call
\* leaves temp_dir exactly as the first left it: no regular file in it, its
\* other entries still there.
C15_CleanupIdempotent ==
    (fn.name = "cleanup" /\ Len(fn.result) >= 2) =>
        /\ \A i \in 2..Len(fn.result) : fn.result[i] = fn.result[1]
        /\ temp = fn.result[1]
        /\ \A e \in temp : ~e.is_file
        /\ \A e \in fn.arg : ~e.is_file => e \in temp

\* C15 witness: cleanup ran twice on a temp_dir that held two regular files
\* and a subdirectory.
C15_Witness ==
    /\ fn.name = "cleanup" /\ Len(fn.result) = 2
    /\ fn.arg = {StaleFile, SubDir, StaleInput}
    /\ temp = {SubDir}

\* C16: one process_video call runs the compose command at most once, and
\* when that run fails (non-zero exit, timeout, exception) the call returns
\* None with no further compose or verify run.
C16_NoRetry ==
    pv.called =>
        /\ Cardinality(CallsOf(pv, "compose")) <= 1
        /\ \A i \in CallsOf(pv, "compose") :
              ~(pv.calls[i].resp.kind = "exit" /\ pv.calls[i].resp.rc = 0) =>
                  /\ i = Len(pv.calls)
                  /\ pv.ret = None

\* C16 witness: a call whose probes were answered and whose compose run
\* timed out: it ended there, with None.
C16_Witness ==
    /\ pv.called /\ Len(pv.calls) = 3
    /\ DimensionsAnswer(pv.calls[1].resp)
    /\ DurationAnswer(pv.calls[2].resp)
    /\ pv.calls[3] = Call("compose", Timeout)
    /\ pv.ret = None

\* C17: the overlay asset is read-only: no step of the program creates or
\* removes it, overlay_path.exists() is after every step what it was before.
C17_OverlayReadOnly == [][overlay_exists' = overlay_exists]_vars

\* C17 witness: the overlay asset is there after a process_video call that
\* cleaned temp_dir, read the asset and wrote the composite.
C17_Witness == overlay_exists /\ pv.called /\ pv.ret # None

\* The candidates whose version run exited 0 in the environment of the call
Answered == {i \in DOMAIN paths : fn.arg.version[i] = "ok"}

\* C18 as stated: _find_ffmpeg returns the first candidate, in the order of
\* paths, whose version run exits 0, and "ffmpeg", never another path, when
\* none does.
C18_FirstOrGeneric ==
    fn.name = "_find_ffmpeg" =>
        /\ \A i \in Answered : (\A j \in Answered : i <= j) => fn.result = paths[i]
        /\ Answered = {} => fn.result = <<"ffmpeg">>

\* C18 amended: _find_ffmpeg returns the first candidate, in the order of
\* paths, whose version run exits 0; when none does it returns the stripped
\* output of `which ffmpeg` if that command exits 0, and "ffmpeg" otherwise.
C18_FirstOrWhichOrGeneric ==
    fn.name = "_find_ffmpeg" =>
        /\ \A i \in Answered : (\A j \in Answered : i <= j) => fn.result = paths[i]
        /\ (Answered = {} /\ fn.arg.which.kind = "exit" /\ fn.arg.which.rc = 0) =>
              fn.result \o <<"\n">> = fn.arg.which.stdout
        /\ (Answered = {} /\ ~(fn.arg.which.kind = "exit" /\ fn.arg.which.rc = 0)) =>
              fn.result = <<"ffmpeg">>

\* C18 witness: the second and the fourth candidate answered, the first did
\* not, and the second was returned.
C18_Witness ==
    /\ fn.name = "_find_ffmpeg"
    /\ Answered = {2, 4}
    /\ fn.result = <<"/usr/local/bin/ffmpeg">>

\* C19: in app.py, a job that was admitted and whose input was downloaded,
\* with the overlay asset there and no tool invocation that failed, finds
\* its own input when process_video checks it (the cleanup at the start of
\* process_video takes stale files only) and process_video returns the
\* output, so the job is reported successful.
C19_HappyPath ==
    \A h \in Handlers :
        (/\ driver = "app"
         /\ pv.called /\ pv.by = h
         /\ handlers[h].pc \in {"edit_failed", "edit_uploading"}
         /\ overlay_exists
         /\ \A i \in DOMAIN pv.calls :
               pv.calls[i].resp.kind = "exit" /\ pv.calls[i].resp.rc = 0)
        => /\ pv.calls # <<>>
           /\ pv.ret # None
           /\ handlers[h].pc = "edit_uploading"

\* The order in which process_video runs the tool
ToolOrder == <<"dimensions", "duration", "compose", "verify">>

C21_AdmissionIndependent ==
    [][\A h \in Handlers :
          (handlers[h].pc = "idle" /\ handlers'[h].pc = "reply_busy")
              => handlers'[h].user \in active]_vars

\* C21 witness: jobs of two different requesters are in flight at the same
\* time, both requesters in the active set.
C21_Witness ==
    \E h1, h2 \in Handlers :
        /\ h1 < h2
        /\ InFlight(h1) /\ InFlight(h2)
        /\ handlers[h1].user # handlers[h2].user
        /\ {handlers[h1].user, handlers[h2].user} \subseteq active

\* C22: when process_video returned None after it had run the compose
\* command (non-zero exit, timeout, output too small, verification failed),
\* output_dir holds no file that this job wrote: under the job's output name
\* there is at most the file that was there before the job.
C22_NoOutputAfterFailure ==
    (pv.called /\ pv.ret = None /\ CallsOf(pv, "compose") # {}) =>
        \A f \in output : f.name = pv.output_filename => f = StaleOutput

\* C23: in process_video each probe's result depends on its own tool run
\* only: answered dimensions are used as answered whatever the duration
\* probe did, an answered duration is used as answered whatever the
\* dimension probe did, and a probe without an answer puts only its own
\* value to the default.
C23_ProbesIndependent ==
    (pv.called /\ Len(pv.calls) >= 2) =>
        LET d == pv.calls[1].resp
            u == pv.calls[2].resp
        IN  /\ <<pv.geom.video_width, pv.geom.video_height>> =
                  IF DimensionsAnswer(d) THEN <<d.stdout[1].val, d.stdout[2].val>>
                  ELSE <<DefaultWidth, DefaultHeight>>
            /\ pv.geom.overlay_duration =
                  IF DurationAnswer(u) THEN u.stdout[1].val ELSE DefaultDuration

\* C23 witness: the dimension probe answered 1920,1080 and the duration
\* probe timed out: the geometry has the real dimensions and the default
\* duration.
C23_Witness ==
    /\ pv.called /\ Len(pv.calls) >= 2
    /\ pv.calls[1].resp = Exit(0, <<Num(1920), Num(1080)>>)
    /\ pv.calls[2].resp = Timeout
    /\ pv.geom.video_width = 1920 /\ pv.geom.video_height = 1080
    /\ pv.geom.overlay_duration = DefaultDuration

\* C24 as stated: for an input video of height 720 the geometry computed by
\* process_video has overlay_y = 675.
C24_OverlayY675 ==
    (pv.called /\ pv.calls # <<>> /\ pv.geom.video_height = 720) =>
        pv.geom.overlay_y = 675

\* C24 amended: for an input video of height 720 the geometry computed by
\* process_video has overlay_height = 72 and overlay_y = 648.
C24_OverlayY648 ==
    (pv.called /\ pv.calls # <<>> /\ pv.geom.video_height = 720) =>
        /\ pv.geom.overlay_height = 72
        /\ pv.geom.overlay_y = 648

\* C24 witness: the dimension probe answered 1280,720 and process_video
\* computed the geometry from it.
C24_Witness ==
    /\ pv.called /\ pv.calls # <<>>
    /\ pv.calls[1].resp = Exit(0, <<Num(1280), Num(720)>>)
    /\ pv.geom.video_height = 720
    /\ pv.geom.overlay_y = 648

====
